---------------------------- MODULE Spec2Model ----------------------------
(***************************************************************************)
(* A model of the SuperKISS64 pseudorandom number generator                *)
(* (src/SuperKISS64.go) and of the entropy source it seeds from            *)
(* (cryptosource.go).                                                      *)
(*                                                                         *)
(* A uint64 is a tuple of 8 bytes, least significant byte first, so that   *)
(* every operation of the code is computed exactly in 64-bit wraparound    *)
(* arithmetic without ever leaving the integer range of the model checker. *)
(* The lagged array Q has QSIZE64 words; the model takes QSIZE64 small.    *)
(***************************************************************************)
EXTENDS Integers, Sequences, FiniteSets, TLC

(***************************************************************************)
(* Bounds of the model.                                                    *)
(***************************************************************************)
\* len(SK64.Q); 20632 in the source, scaled down here.
QSIZE64 == 3

\* The number of operations performed on the generators in one behaviour.
MaxOps == 3

\* The number of calls in one behaviour that saves and loads state files.
MaxIO == 4

\* The number of draws a round trip is followed for.
MaxN == 4

\* The number of words a CryptoSource takes from crypto/rand at a time; 32
\* in the source, scaled down here with the buffer.
CryptoWords == 2

(***************************************************************************)
(* uint64 arithmetic on 8 little-endian bytes.                             *)
(***************************************************************************)
Bytes == 1..8

Zero == <<0, 0, 0, 0, 0, 0, 0, 0>>

Pow2(k) == CASE k = 0 -> 1 [] k = 1 -> 2 [] k = 2 -> 4 [] k = 3 -> 8
             [] k = 4 -> 16 [] k = 5 -> 32 [] k = 6 -> 64 [] k = 7 -> 128
             [] k = 8 -> 256

\* The uint64 whose value is the natural number n < 2^31.
FromNat(n) ==
  <<n % 256, (n \div 256) % 256, (n \div 65536) % 256,
    (n \div 16777216) % 256, 0, 0, 0, 0>>

Byte(x, i) == IF i \in Bytes THEN x[i] ELSE 0

\* x << k
ShlByte(w, bq, bs, i) ==
  ((Byte(w, i - bq) * Pow2(bs)) % 256)
  + (Byte(w, i - bq - 1) \div Pow2(8 - bs))

Shl(x, k) ==
  LET q == k \div 8
      s == k % 8
  IN  <<ShlByte(x, q, s, 1), ShlByte(x, q, s, 2), ShlByte(x, q, s, 3),
        ShlByte(x, q, s, 4), ShlByte(x, q, s, 5), ShlByte(x, q, s, 6),
        ShlByte(x, q, s, 7), ShlByte(x, q, s, 8)>>

\* x >> k
ShrByte(w, bq, bs, i) ==
  (Byte(w, i + bq) \div Pow2(bs))
  + ((Byte(w, i + bq + 1) * Pow2(8 - bs)) % 256)

Shr(x, k) ==
  LET q == k \div 8
      s == k % 8
  IN  <<ShrByte(x, q, s, 1), ShrByte(x, q, s, 2), ShrByte(x, q, s, 3),
        ShrByte(x, q, s, 4), ShrByte(x, q, s, 5), ShrByte(x, q, s, 6),
        ShrByte(x, q, s, 7), ShrByte(x, q, s, 8)>>

\* ^x
Not(x) ==
  <<255 - x[1], 255 - x[2], 255 - x[3], 255 - x[4], 255 - x[5], 255 - x[6],
    255 - x[7], 255 - x[8]>>

RECURSIVE XorNat(_, _, _)
XorNat(a, b, n) ==
  IF n = 0 THEN 0
  ELSE ((a + b) % 2) + 2 * XorNat(a \div 2, b \div 2, n - 1)

RECURSIVE OrNat(_, _, _)
OrNat(a, b, n) ==
  IF n = 0 THEN 0
  ELSE (IF a % 2 = 1 \/ b % 2 = 1 THEN 1 ELSE 0)
       + 2 * OrNat(a \div 2, b \div 2, n - 1)

XorTab == [a \in 0..15 |-> [b \in 0..15 |-> XorNat(a, b, 4)]]

OrTab == [a \in 0..15 |-> [b \in 0..15 |-> OrNat(a, b, 4)]]

\* x ^ y
XorByte(a, b) == 16 * XorTab[a \div 16][b \div 16] + XorTab[a % 16][b % 16]

Xor(x, y) ==
  <<XorByte(x[1], y[1]), XorByte(x[2], y[2]), XorByte(x[3], y[3]),
    XorByte(x[4], y[4]), XorByte(x[5], y[5]), XorByte(x[6], y[6]),
    XorByte(x[7], y[7]), XorByte(x[8], y[8])>>

\* x | y
OrByte(a, b) == 16 * OrTab[a \div 16][b \div 16] + OrTab[a % 16][b % 16]

Or(x, y) ==
  <<OrByte(x[1], y[1]), OrByte(x[2], y[2]), OrByte(x[3], y[3]),
    OrByte(x[4], y[4]), OrByte(x[5], y[5]), OrByte(x[6], y[6]),
    OrByte(x[7], y[7]), OrByte(x[8], y[8])>>

RECURSIVE AddFrom(_, _, _, _)
AddFrom(x, y, i, c) ==
  IF i > 8 THEN <<>>
  ELSE LET t == x[i] + y[i] + c
       IN  <<t % 256>> \o AddFrom(x, y, i + 1, t \div 256)

\* x + y, modulo 2^64
Add(x, y) == AddFrom(x, y, 1, 0)

RECURSIVE ColSum(_, _, _, _)
ColSum(x, y, k, i) ==
  IF i > k THEN 0 ELSE x[i] * y[k + 1 - i] + ColSum(x, y, k, i + 1)

RECURSIVE MulFrom(_, _, _, _)
MulFrom(x, y, k, c) ==
  IF k > 8 THEN <<>>
  ELSE LET t == ColSum(x, y, k, 1) + c
       IN  <<t % 256>> \o MulFrom(x, y, k + 1, t \div 256)

\* x * y, modulo 2^64
Mul(x, y) == MulFrom(x, y, 1, 0)

\* bit k (0 = least significant) of x
Bit(x, k) == (x[(k \div 8) + 1] \div Pow2(k % 8)) % 2

(***************************************************************************)
(* Decimal text of a uint64, as the XML encoding writes and reads it.      *)
(***************************************************************************)
RECURSIVE DivFrom(_, _, _)
\* Long division of x by 10 from byte i downwards with remainder rem:
\* <<quotient bytes most significant first..., remainder>>.
DivFrom(x, i, rem) ==
  IF i = 0 THEN <<rem>>
  ELSE LET cur == rem * 256 + x[i]
       IN  <<cur \div 10>> \o DivFrom(x, i - 1, cur % 10)

Div10(x) ==
  LET d == DivFrom(x, 8, 0)
  IN  <<d[8], d[7], d[6], d[5], d[4], d[3], d[2], d[1]>>

Mod10(x) == DivFrom(x, 8, 0)[9]

RECURSIVE FormatUint(_)
\* strconv.FormatUint(x, 10): the decimal digits, most significant first.
FormatUint(x) ==
  IF Div10(x) = Zero THEN <<Mod10(x)>>
  ELSE FormatUint(Div10(x)) \o <<Mod10(x)>>

Ten == FromNat(10)

RECURSIVE ParseUint(_)
\* strconv.ParseUint(ds, 10, 64) of a digit string in range: the value of
\* the digits before the last, times ten, plus the last digit.
ParseUint(ds) ==
  IF Len(ds) = 0 THEN Zero
  ELSE LET hi == ParseUint(SubSeq(ds, 1, Len(ds) - 1))
       IN  IF hi = Zero THEN FromNat(ds[Len(ds)])
           ELSE Add(Mul(hi, Ten), FromNat(ds[Len(ds)]))

(***************************************************************************)
(* The generator state and the combiner primitives.                        *)
(***************************************************************************)
RECURSIVE Zeros(_)
\* make([]uint64, n)
Zeros(n) == IF n = 0 THEN <<>> ELSE <<Zero>> \o Zeros(n - 1)

\* The Go zero value of SK64: no buffer, nothing seeded.
ZeroSK64 ==
  [Carry |-> Zero, Xcng |-> Zero, Xs |-> Zero, Index |-> 0, Q |-> <<>>,
   Seeded |-> FALSE]

\* &SK64{Q: make([]uint64, QSIZE64)}, as every constructor allocates it.
AllocSK64 == [ZeroSK64 EXCEPT !.Q = Zeros(QSIZE64)]

CngMul == ParseUint(<<6, 9, 0, 6, 9, 6, 9, 0, 6, 9>>)

CngInc == FromNat(123)

\* The value cng leaves in Xcng and returns.
cng(x) == Add(Mul(CngMul, x), CngInc)

\* The three statements of xs.
Xs13(x) == Xor(x, Shl(x, 13))

Xs17(x) == Xor(x, Shr(x, 17))

Xs43(x) == Xor(x, Shl(x, 43))

xs(x) == Xs43(Xs17(Xs13(x)))

XcngSeed0 == ParseUint(<<1, 2, 3, 6, 7, 8, 9, 0, 1, 2, 3, 4, 5, 6>>)

XsSeed == ParseUint(<<5, 2, 1, 2, 8, 8, 6, 2, 9, 5, 4, 6, 3, 1, 1>>)

CarrySeed == ParseUint(<<3, 6, 2, 4, 3, 6, 7, 8, 5, 4, 1>>)

\* The int64 n, |n| < 2^31, as its 64 two's complement bits.
Int64(n) == IF n >= 0 THEN FromNat(n) ELSE Not(FromNat((-n) - 1))

\* The outcome of a call: the generator afterwards, the value returned, and
\* whether the call ended in a run-time panic (index out of range).
Res(g, out, panic) == [g |-> g, out |-> out, panic |-> panic]

(***************************************************************************)
(* refill, Uint64 and the seeding routines.  Q[i] of the code is g.Q[i+1]. *)
(***************************************************************************)
\* z of one iteration of refill, from Q[i] and Carry.
RefillZ(q, carry) ==
  Add(Add(Shr(Shl(q, 41), 1), Shr(Shl(q, 39), 1)), Shr(carry, 1))

\* A Carry that takes the whole of z in, not its top bit.
RefillCarryWide(q, z) == Add(Add(Shr(q, 23), Shr(q, 25)), z)

\* The Carry one iteration of refill leaves.
RefillCarry(q, z) == Add(Add(Shr(q, 23), Shr(q, 25)), Shr(z, 63))

\* The Q[i] one iteration of refill leaves; h = carry & 1.
RefillWord(z, carry) == Not(Add(Shl(z, 1), FromNat(Bit(carry, 0))))

\* An iteration of refill that takes h from the Carry it has just set.
RefillAtNewCarry(g, i, z) ==
  [g EXCEPT !.Carry = RefillCarry(g.Q[i + 1], z),
            !.Q[i + 1] = RefillWord(z, RefillCarry(g.Q[i + 1], z))]

\* Iteration i of refill, given its z.
RefillAt(g, i, z) ==
  [g EXCEPT !.Carry = RefillCarry(g.Q[i + 1], z),
            !.Q[i + 1] = RefillWord(z, g.Carry)]

RECURSIVE RefillFrom(_, _)
\* The iterations of refill from i on, then Index = 1 and the return of Q[0].
RefillFrom(g, i) ==
  IF i = QSIZE64 THEN Res([g EXCEPT !.Index = 1], g.Q[1], FALSE)
  ELSE IF i >= Len(g.Q) THEN Res(g, Zero, TRUE)
  ELSE RefillFrom(RefillAt(g, i, RefillZ(g.Q[i + 1], g.Carry)), i + 1)

refill(g) == RefillFrom(g, 0)

\* A draw that refills one word before the buffer is used up.
InBufferEarly(g) == g.Index < QSIZE64 - 1

\* Whether a draw finds its word in the buffer without a refill.
InBuffer(g) == g.Index < QSIZE64

\* The first statement of Uint64 after the seeding: the buffer word.
Fetch(g) ==
  IF InBuffer(g)
  THEN IF g.Index >= Len(g.Q) THEN Res(g, Zero, TRUE)
       ELSE Res([g EXCEPT !.Index = g.Index + 1], g.Q[g.Index + 1], FALSE)
  ELSE refill(g)

\* A draw that leaves the xorshift word out of the sum.
MixWithoutXs(d, x, c) ==
  Res([d.g EXCEPT !.Xs = x, !.Xcng = c], Add(d.out, c), FALSE)

\* r.Xs = xs(r.Xs); result += r.cng() + r.Xs
MixWith(d, x, c) ==
  Res([d.g EXCEPT !.Xs = x, !.Xcng = c], Add(d.out, Add(c, x)), FALSE)

Mix(d) == IF d.panic THEN d ELSE MixWith(d, xs(d.g.Xs), cng(d.g.Xcng))

\* Uint64 on a seeded generator.
Draw(g) == Mix(Fetch(g))

\* A self-seeding with the seed of George Marsaglia's test.
SelfSeedZero == Int64(0)

\* The seed an unseeded generator gives itself on its first draw.
SelfSeed == Int64(1)

\* Whether Uint64 has to seed the generator first.
NeedsSeed(g) == ~g.Seeded

\* The first assignment of every seeding routine.
MarkSeeded(g) == [g EXCEPT !.Seeded = TRUE]

\* The congruential start of Seed; uint64(seed) keeps the bits of seed.
SeedXcng(seed) == IF seed = Zero THEN XcngSeed0 ELSE seed

\* A seeding that leaves the Carry of the generator as it finds it.
SeedScalarsKeepCarry(g, x) ==
  [g EXCEPT !.Xcng = x, !.Xs = XsSeed, !.Index = QSIZE64]

\* The scalars every deterministic seeding sets before it fills the buffer.
SeedScalars(g, x) ==
  [g EXCEPT !.Xcng = x, !.Xs = XsSeed, !.Carry = CarrySeed,
            !.Index = QSIZE64]

RECURSIVE FillFrom(_, _)
\* r.Xs = xs(r.Xs); r.Q[i] = r.cng() + r.Xs, given the new Xs and Xcng.
FillAt(g, i, x, c) ==
  IF i >= Len(g.Q) THEN Res([g EXCEPT !.Xs = x, !.Xcng = c], Zero, TRUE)
  ELSE FillFrom([g EXCEPT !.Xs = x, !.Xcng = c, !.Q[i + 1] = Add(c, x)],
                i + 1)

\* for i := 0; i < QSIZE64; i++ { r.Xs = xs(r.Xs); r.Q[i] = r.cng() + r.Xs }
FillFrom(g, i) ==
  IF i = QSIZE64 THEN Res(g, Zero, FALSE)
  ELSE FillAt(g, i, xs(g.Xs), cng(g.Xcng))

\* A warm-up that is one draw short.
WarmupOneLess == QSIZE64 * 4 - 1

\* The number of discarded draws of a warm-up.
WarmupDraws == QSIZE64 * 4

RECURSIVE Uint64(_)
RECURSIVE Seed(_, _)
RECURSIVE Warmup(_, _)

\* n more discarded draws after the outcome u of the draws before them.
WarmupRest(u, n) == IF u.panic THEN u ELSE Warmup(u.g, n)

\* n discarded draws, one after the other: the first half of them, then the
\* rest (which keeps the evaluation shallow).
Warmup(g, n) ==
  IF n = 0 THEN Res(g, Zero, FALSE)
  ELSE IF n = 1 THEN Uint64(g)
  ELSE WarmupRest(Warmup(g, n \div 2), n - (n \div 2))

\* A Seed that warms up whatever the seed is.
SeedWarmupAlways(f, seed) == IF f.panic THEN f ELSE Warmup(f.g, WarmupDraws)

\* The end of Seed: the warm-up, which seed 0 skips.
SeedWarmup(f, seed) ==
  IF f.panic \/ seed = Zero THEN f ELSE Warmup(f.g, WarmupDraws)

\* A Seed that ignores the call.
SeedIgnored(g, seed) == Res(g, Zero, FALSE)

Seed(g, seed) ==
  SeedWarmup(FillFrom(SeedScalars(MarkSeeded(g), SeedXcng(seed)), 0), seed)

\* The draw of Uint64 after the outcome s of its seeding.
DrawSeeded(s) == IF s.panic THEN s ELSE Draw(s.g)

Uint64(g) ==
  DrawSeeded(IF NeedsSeed(g) THEN Seed(g, SelfSeed) ELSE Res(g, Zero, FALSE))

\* The index into s that the final overwrite of Q[0] reads.
LastSliceIndex(j, count) == j % count

\* A word of the slice fill that leaves the index i out of the sum.
SliceWordNoIndex(s, j, c, n, i) == Add(Add(s[j + 1], c), xs(n))

\* r.Q[i] = s[j] + r.cng() + xs(n) + i, given the new Xcng.
SliceWord(s, j, c, n, i) == Add(Add(Add(s[j + 1], c), xs(n)), FromNat(i))

RECURSIVE SliceFrom(_, _, _, _)
\* One iteration of the loop of SeedFromSlice, given j % count and the new
\* Xcng.
SliceAt(g, s, i, j, c) ==
  IF i >= Len(g.Q) THEN Res([g EXCEPT !.Xcng = c], Zero, TRUE)
  ELSE SliceFrom([g EXCEPT !.Xcng = c,
                           !.Q[i + 1] = SliceWord(s, j, c, g.Q[i], i)],
                 s, i + 1, j + 1)

\* r.Q[0] = s[j%count] + r.cng() + xs(r.Q[i-1]) + i after the loop.
SliceLast(g, s, i, j, c) ==
  Res([g EXCEPT !.Xcng = c, !.Q[1] = SliceWord(s, j, c, g.Q[i], i)], Zero,
      FALSE)

\* The loop of SeedFromSlice from i on, with j as the iteration finds it, and
\* the overwrite of Q[0] that follows the loop.
SliceFrom(g, s, i, j) ==
  IF i - 1 >= Len(g.Q) THEN Res(g, Zero, TRUE)
  ELSE IF i < QSIZE64 THEN SliceAt(g, s, i, j % Len(s), cng(g.Xcng))
  ELSE SliceLast(g, s, i, LastSliceIndex(j, Len(s)), cng(g.Xcng))

\* r.Xs = xs(r.Xs); r.Q[0] = s[0] + r.cng() + r.Xs; j++ and what follows.
SliceFirst(g, s, x, c) ==
  IF Len(g.Q) = 0 THEN Res([g EXCEPT !.Xs = x, !.Xcng = c], Zero, TRUE)
  ELSE SliceFrom([g EXCEPT !.Xs = x, !.Xcng = c,
                           !.Q[1] = Add(Add(s[1], c), x)], s, 1, 1)

\* The buffer fill of SeedFromSlice.
SliceFill(g, s) ==
  IF Len(s) > 0 THEN SliceFirst(g, s, xs(g.Xs), cng(g.Xcng))
  ELSE FillFrom(g, 0)

\* A SeedFromSlice that returns as soon as the buffer is filled.
SliceNoWarmup(f) == f

\* The end of SeedFromSlice: the warm-up.
SliceWarmup(f) == IF f.panic THEN f ELSE Warmup(f.g, WarmupDraws)

SeedFromSlice(g, s) ==
  SliceWarmup(SliceFill(SeedScalars(MarkSeeded(g), XcngSeed0), s))

\* The constructors: a new buffer, seeded.
NewSuperKISS64(seed) == Seed(AllocSK64, seed).g

NewSuperKISS64FromSlice(s) == SeedFromSlice(AllocSK64, s).g

RECURSIVE Outs(_, _)
\* The outputs of n draws after the outcome u of a draw.
OutsRest(u, n) == IF u.panic THEN <<>> ELSE <<u.out>> \o Outs(u.g, n)

\* The outputs of the next n draws of g, in order (cut short by a panic).
Outs(g, n) == IF n = 0 THEN <<>> ELSE OutsRest(Uint64(g), n - 1)

\* The generator after n draws of g.
After(g, n) == Warmup(g, n).g

(***************************************************************************)
(* The output conversions.                                                 *)
(***************************************************************************)
\* An Int63 that converts the draw as it is.
Int63OfUnshifted(u) == u

\* int64(u >> 1)
Int63Of(u) == Shr(u, 1)

\* 0x3FF0000000000000 and 0x3F800000: sign 0 and the exponent of [1,2).
OneBits64 == Shl(FromNat(1023), 52)

OneBits32 == Shl(FromNat(127), 23)

\* uint32(u)
Uint32(u) == <<u[1], u[2], u[3], u[4], 0, 0, 0, 0>>

\* A Float64 that drops one bit of the draw, not two.
Float64BitsShiftOne(u) == Or(Shr(u, 1), OneBits64)

\* The bit pattern Float64 hands to math.Float64frombits.
Float64Bits(u) == Or(Shr(u, 2), OneBits64)

\* The bit pattern Float32 hands to math.Float32frombits.
Float32Bits(u) == Or(Shr(Uint32(u), 2), OneBits32)

\* Each conversion applied to the outcome u of its draw.
Int63From(u) == IF u.panic THEN u ELSE Res(u.g, Int63Of(u.out), FALSE)

Int63(g) == Int63From(Uint64(g))

Float64From(u) == IF u.panic THEN u ELSE Res(u.g, Float64Bits(u.out), FALSE)

Float64(g) == Float64From(Uint64(g))

\* A Float32 that makes a second draw and throws it away.
Float32FromSecond(u) ==
  IF u.panic THEN u ELSE Res(Uint64(u.g).g, Float32Bits(u.out), FALSE)

Float32From(u) == IF u.panic THEN u ELSE Res(u.g, Float32Bits(u.out), FALSE)

Float32(g) == Float32From(Uint64(g))

\* x as a natural number, for x < 2^31.
ToNat(x) == x[1] + 256 * x[2] + 65536 * x[3] + 16777216 * x[4]

\* The sign bit and the biased exponent of an IEEE 754 double / single.
Sign64(n) == Bit(n, 63)

Exp64(n) == ToNat(Shr(n, 52)) % 2048

Sign32(n) == Bit(n, 31)

Exp32(n) == ToNat(Shr(n, 23)) % 256

\* The bytes of v most significant first, as binary.BigEndian puts them.
PutUint64BigEndian(p, n, v) ==
  [p EXCEPT ![n + 1] = v[8], ![n + 2] = v[7], ![n + 3] = v[6],
            ![n + 4] = v[5], ![n + 5] = v[4], ![n + 6] = v[3],
            ![n + 7] = v[2], ![n + 8] = v[1]]

\* binary.LittleEndian.PutUint64(p[n:], v): p[n+k] = byte(v >> 8k).
PutUint64(p, n, v) ==
  [p EXCEPT ![n + 1] = v[1], ![n + 2] = Shr(v, 8)[1],
            ![n + 3] = Shr(v, 16)[1], ![n + 4] = Shr(v, 24)[1],
            ![n + 5] = Shr(v, 32)[1], ![n + 6] = Shr(v, 40)[1],
            ![n + 7] = Shr(v, 48)[1], ![n + 8] = Shr(v, 56)[1]]

\* What Read returns: the slice as filled, the count n and the nil error.
Filled(p, n) == [p |-> p, n |-> n, err |-> <<>>]

RECURSIVE ReadTail(_, _, _)
\* for n < len(p) { p[n] = byte(val); val >>= 8; n++ }
ReadTail(p, n, val) ==
  IF n < Len(p)
  THEN ReadTail([p EXCEPT ![n + 1] = val[1]], n + 1, Shr(val, 8))
  ELSE Filled(p, n)

\* Whether the first loop of Read has a whole group of 8 bytes left to fill.
ReadGroup(n, len) == n + 8 <= len

RECURSIVE ReadFrom(_, _, _)
\* One turn of the first loop of Read, given the outcome u of its draw.
ReadGroupAt(u, p, n) ==
  IF u.panic THEN Res(u.g, Filled(p, n), TRUE)
  ELSE ReadFrom(u.g, PutUint64(p, n, u.out), n + 8)

\* The final partial group of Read, given the outcome u of its draw.
ReadTailAt(u, p, n) ==
  IF u.panic THEN Res(u.g, Filled(p, n), TRUE)
  ELSE Res(u.g, ReadTail(p, n, u.out), FALSE)

\* Read from byte n of p on.
ReadFrom(g, p, n) ==
  IF ReadGroup(n, Len(p)) THEN ReadGroupAt(Uint64(g), p, n)
  ELSE IF n < Len(p) THEN ReadTailAt(Uint64(g), p, n)
  ELSE Res(g, Filled(p, n), FALSE)

Read(g, p) == ReadFrom(g, p, 0)

(***************************************************************************)
(* The state file: the XML text of a generator, gzip'ped or not.           *)
(***************************************************************************)
\* One XML element: <name>text</name>.
Elem(name, text) == <<name, text>>

\* strconv.FormatBool and strconv.ParseBool on what FormatBool writes.
FormatBool(b) == IF b THEN "true" ELSE "false"

ParseBool(text) == text = "true"

RECURSIVE EncodeQ(_, _)
\* One <Q> element for each word of the buffer from word i on.
EncodeQ(q, i) ==
  IF i > Len(q) THEN <<>>
  ELSE <<Elem("Q", FormatUint(q[i]))>> \o EncodeQ(q, i + 1)

\* An encoding that leaves the Seeded field out, as for a field without
\* an exported name.
EncodeWithoutSeeded(g) ==
  <<Elem("Carry", FormatUint(g.Carry)), Elem("Xcng", FormatUint(g.Xcng)),
    Elem("Xs", FormatUint(g.Xs)), Elem("Index", FormatUint(FromNat(g.Index)))>>
  \o EncodeQ(g.Q, 1)

\* The elements xml.Encoder.Encode writes for an SK64, in field order.
Encode(g) ==
  <<Elem("Carry", FormatUint(g.Carry)), Elem("Xcng", FormatUint(g.Xcng)),
    Elem("Xs", FormatUint(g.Xs)), Elem("Index", FormatUint(FromNat(g.Index)))>>
  \o EncodeQ(g.Q, 1) \o <<Elem("Seeded", FormatBool(g.Seeded))>>

\* What xml.Decoder.Decode does with one element: it sets the field of that
\* name, appending to Q, and skips an element of any other name.
DecodeElem(q, e) ==
  CASE e[1] = "Carry" -> [q EXCEPT !.Carry = ParseUint(e[2])]
    [] e[1] = "Xcng" -> [q EXCEPT !.Xcng = ParseUint(e[2])]
    [] e[1] = "Xs" -> [q EXCEPT !.Xs = ParseUint(e[2])]
    [] e[1] = "Index" -> [q EXCEPT !.Index = ToNat(ParseUint(e[2]))]
    [] e[1] = "Q" -> [q EXCEPT !.Q = Append(q.Q, ParseUint(e[2]))]
    [] e[1] = "Seeded" -> [q EXCEPT !.Seeded = ParseBool(e[2])]
    [] OTHER -> q

RECURSIVE DecodeFrom(_, _, _)
DecodeFrom(q, doc, i) ==
  IF i > Len(doc) THEN q ELSE DecodeFrom(DecodeElem(q, doc[i]), doc, i + 1)

\* q := &SK64{}; decoder.Decode(q) on a complete document.
Decode(doc) == DecodeFrom(ZeroSK64, doc, 1)

\* The names of the state files: one plain, one gzip'ped.
XmlName == <<"state", ".xml">>

GzName == <<"state", ".xml", ".gz">>

FileNames == {XmlName, GzName}

\* strings.HasSuffix(name, ".gz")
HasSuffixGz(name) == name[Len(name)] = ".gz"

\* A file on disk: whether it is gzip'ped, the document in it, and the damage
\* done to it since it was written: "head" (its first bytes overwritten),
\* "cut" (truncated inside the document) or "tail" (damaged after the end of
\* the document: for a gzip'ped file, inside the compressed stream).
Content(gzip, doc, damage) ==
  [exists |-> TRUE, gzip |-> gzip, doc |-> doc, damage |-> damage]

NoFile == [exists |-> FALSE, gzip |-> FALSE, doc |-> <<>>, damage |-> "none"]

Damages == {"head", "cut", "tail"}

\* An error value is the sequence of the errors joined in it; nil is empty.
NoError == <<>>

\* errors.Join(a, b)
Join(a, b) == a \o b

\* What a call on a generator and a file returns: the generator and the
\* file afterwards, and the error.
IORes(g, file, err) == [g |-> g, file |-> file, err |-> err]

\* A SaveState that draws a value from the generator it has saved.
SaveStateDrawing(g, isNil, file, name, createFails) ==
  IORes(Uint64(g).g, Content(HasSuffixGz(name), Encode(g), "none"), NoError)

\* r.SaveState(outfile) for a receiver that is nil or points to g, given
\* whether os.Create fails: it writes the encoding of g, through a gzip
\* writer if the name ends in ".gz".
SaveState(g, isNil, file, name, createFails) ==
  IF isNil THEN IORes(g, file, <<"SuperKISS64:SaveState called with nil r">>)
  ELSE IF createFails THEN IORes(g, file, <<"create">>)
  ELSE IORes(g, Content(HasSuffixGz(name), Encode(g), "none"), NoError)

\* SK64SaveState(r, outfile) for an r that is nil or points to g.
SK64SaveState(g, isNil, file, name, createFails) ==
  IF isNil
  THEN IORes(g, file, <<"SuperKISS64:SK64SaveState called with nil r">>)
  ELSE SaveState(g, FALSE, file, name, createFails)

\* in.Close() and gr.Close(): the first fails when the environment makes it
\* fail, the second when the compressed stream did not end as it should.
InClose(fails) == IF fails THEN <<"close">> ELSE NoError

GzClose(c) == IF c.damage \in {"cut", "tail"} THEN <<"flate">> ELSE NoError

\* gzip.NewReader(in) fails on a file that does not start as a gzip file.
GzipHeaderBad(c) == ~c.gzip \/ c.damage = "head"

\* Whether Decode fails on the text the reader hands it: it stops reading at
\* the end tag of the document, so damage after the document is not seen.
DecodeFails(c, viaGzip) ==
  \/ c.damage \in {"head", "cut"}
  \/ c.gzip /\ ~viaGzip

\* if err = decoder.Decode(q); err == nil { *r = *q }, then the deferred
\* closes, each joining its error to err.
Decoded(g, c, viaGzip, closes) ==
  IF DecodeFails(c, viaGzip) THEN IORes(g, c, Join(<<"xml">>, closes))
  ELSE IORes(Decode(c.doc), c, closes)

\* r.LoadState(infile) on the file c of that name, given whether in.Close()
\* fails.
LoadState(g, c, name, closeFails) ==
  IF ~c.exists THEN IORes(g, c, <<"open">>)
  ELSE IF HasSuffixGz(name)
  THEN IF GzipHeaderBad(c)
       THEN IORes(g, c, Join(<<"gzip">>, InClose(closeFails)))
       ELSE Decoded(g, c, TRUE, Join(GzClose(c), InClose(closeFails)))
  ELSE Decoded(g, c, FALSE, InClose(closeFails))

\* What SK64LoadState returns: (nil, err) or (r, nil).
Loaded(g, isNil, err) == [g |-> g, isNil |-> isNil, err |-> err]

\* if err = r.LoadState(infile); err != nil { r = nil }; return
SK64Loaded(l) ==
  IF l.err # NoError THEN Loaded(ZeroSK64, TRUE, l.err)
  ELSE Loaded(l.g, FALSE, l.err)

\* r = &SK64{}; r.LoadState(infile)
SK64LoadState(c, name, closeFails) ==
  SK64Loaded(LoadState(ZeroSK64, c, name, closeFails))

(***************************************************************************)
(* Inputs.                                                                 *)
(***************************************************************************)
\* The int64 seeds tried.
Seeds == {Int64(0), Int64(1), Int64(-1)}

RECURSIVE Ramp(_)
\* The slice 1, 2, ..., n.
Ramp(n) == IF n = 0 THEN <<>> ELSE Ramp(n - 1) \o <<FromNat(n)>>

\* The slices tried: empty, shorter than the buffer, as long as it, and longer.
Slices ==
  {<<>>, Ramp(1), Ramp(QSIZE64), Ramp(QSIZE64 + 1),
   Ramp(QSIZE64) \o <<Zero>>, Ramp(QSIZE64 + 1) \o <<Zero>>}

\* The values the entropy source may hand out.
Entropy == {Zero, Not(Zero)}

RECURSIVE Repeat(_, _)
Repeat(e, n) == IF n = 0 THEN <<>> ELSE <<e>> \o Repeat(e, n - 1)

\* The buffer fills the entropy source may hand out.
EntropyFills == {Repeat(e, QSIZE64) : e \in Entropy} \cup {Ramp(QSIZE64)}

\* The lengths of the byte slices handed to Read.
ReadLens == {0, 1, 7, 8, 9, 17}

\* What every byte of a slice holds before Read fills it: 0xFF.
Stale == Not(Zero)[1]

NIL == "nil"

(***************************************************************************)
(* The state.                                                              *)
(*   r         the generator the caller works with                         *)
(*   pc        "idle", or "xsloop" while SeedFromCrypto is redrawing Xs    *)
(*   panicked  a call on r ended in a run-time panic                       *)
(*   last      the last call: its name, argument, the generator before it  *)
(*             and what it returned                                        *)
(*   hist      how r was last seeded (for SeedFromCrypto: whether a zero   *)
(*             sample of Xs was discarded) and the number of draws since   *)
(*   ops       the number of calls made                                    *)
(*   files     the state files on disk, by name                            *)
(*   saved     for each file, the generator SaveState last wrote to it     *)
(*   cr        the words left in the buffer of the CryptoSource of the     *)
(*             SeedFromCrypto that is running; 0 when none is              *)
(*   th        the calls of Uint64 that goroutines are making on r at the  *)
(*             same time, each with its position and its locals            *)
(***************************************************************************)
VARIABLES r, pc, panicked, last, hist, ops, files, saved, cr, th

vars == <<r, pc, panicked, last, hist, ops, files, saved, cr, th>>

disk == <<files, saved>>

\* No goroutine but the one of the caller.
NoCalls == [locked |-> FALSE, held |-> 0, pre |-> NIL, order |-> <<>>, c |-> <<>>]

RECURSIVE LeftAfter(_, _)
\* The words left in the buffer of a CryptoSource that had left of them,
\* after n calls of its Uint64: a call that finds none left reads
\* CryptoWords from crypto/rand first.
LeftAfter(left, n) ==
  IF n = 0 THEN left
  ELSE LeftAfter((IF left = 0 THEN CryptoWords ELSE left) - 1, n - 1)

Call(op, arg, pre, out) == [op |-> op, arg |-> arg, pre |-> pre, out |-> out]

Origin(how, arg, draws) == [how |-> how, arg |-> arg, draws |-> draws]

\* var r SK64, or r := &SK64{Q: make([]uint64, QSIZE64)} as the
\* constructors allocate it before they seed it.
Init ==
  /\ r \in {ZeroSK64, AllocSK64}
  /\ pc = "idle"
  /\ panicked = FALSE
  /\ last = Call("new", NIL, NIL, NIL)
  /\ hist = Origin("none", NIL, 0)
  /\ ops = 0
  /\ files = [name \in FileNames |-> NoFile]
  /\ saved = [name \in FileNames |-> ZeroSK64]
  /\ cr = 0
  /\ th = NoCalls

Ready == pc = "idle" /\ ~panicked /\ ops < MaxOps

\* The origin after a call that drew n values from a generator that was
\* seeded, or that seeded itself on the first of them.
Drawn(g, n) ==
  IF n = 0 THEN hist
  ELSE IF NeedsSeed(g) THEN Origin("self", NIL, n)
  ELSE Origin(hist.how, hist.arg, hist.draws + n)

\* A seeding call op(arg) on r has had the outcome res.
Reseeded(op, arg, res) ==
  /\ r' = res.g
  /\ panicked' = res.panic
  /\ last' = Call(op, arg, r, NIL)
  /\ hist' = Origin(op, arg, 0)
  /\ ops' = ops + 1
  /\ UNCHANGED <<pc, disk, cr, th>>

\* A call op(arg) on r that makes n draws has had the outcome res.
Returned(op, arg, res, n) ==
  /\ r' = res.g
  /\ panicked' = res.panic
  /\ last' = Call(op, arg, r, res.out)
  /\ hist' = Drawn(r, n)
  /\ ops' = ops + 1
  /\ UNCHANGED <<pc, disk, cr, th>>

\* r.Seed(seed); NewSuperKISS64(seed) is this call on a new buffer.
DoSeed(seed) == Ready /\ Reseeded("Seed", seed, Seed(r, seed))

\* r.SeedFromSlice(s); NewSuperKISS64FromSlice(s) is this call on a new
\* buffer.
DoSeedFromSlice(s) ==
  Ready /\ Reseeded("SeedFromSlice", s, SeedFromSlice(r, s))

\* A SeedFromCrypto that keeps the first sample of Xs whatever it is.
XsDrawnAtOnce(g) == TRUE

\* A loop that never ends: no value of Xs is taken for drawn.
XsDrawnNever(g) == FALSE

\* Whether the loop of SeedFromCrypto that redraws Xs has ended.
XsDrawn(g) == g.Xs # Zero

\* r.SeedFromCrypto() up to its loop: Seeded, Xcng and the first Xs, each
\* from the entropy source.  NewSuperKISS64Rand is this call on a new buffer.
CryptoBegin(e1, e2) ==
  /\ Ready
  /\ r' = [MarkSeeded(r) EXCEPT !.Xcng = e1, !.Xs = e2]
  /\ pc' = "xsloop"
  /\ last' = Call("SeedFromCrypto", NIL, r, NIL)
  /\ hist' = Origin("SeedFromCrypto", FALSE, 0)
  /\ ops' = ops + 1
  /\ cr' = LeftAfter(0, 2)
  /\ UNCHANGED <<panicked, disk, th>>

\* One more turn of the loop: for r.Xs == 0 { r.Xs = cr.Uint64() }
CryptoRedraw(e) ==
  /\ pc = "xsloop"
  /\ ~XsDrawn(r)
  /\ r' = [r EXCEPT !.Xs = e]
  /\ hist' = Origin("SeedFromCrypto", TRUE, 0)
  /\ cr' = LeftAfter(cr, 1)
  /\ UNCHANGED <<pc, panicked, last, ops, disk, th>>

RECURSIVE CryptoFill(_, _, _)
\* for i := 0; i < QSIZE64; i++ { r.Q[i] = cr.Uint64() }
CryptoFill(g, es, i) ==
  IF i = QSIZE64 THEN Res(g, Zero, FALSE)
  ELSE IF i >= Len(g.Q) THEN Res(g, Zero, TRUE)
  ELSE CryptoFill([g EXCEPT !.Q[i + 1] = es[i + 1]], es, i + 1)

\* SeedFromCrypto has returned, or panicked, with the outcome f.
CryptoDone(f) ==
  /\ r' = f.g
  /\ panicked' = f.panic
  /\ pc' = "idle"
  /\ cr' = 0
  /\ UNCHANGED <<last, hist, ops, disk, th>>

\* The rest of SeedFromCrypto: Carry, Index and the buffer.
CryptoFinish(e, es) ==
  /\ pc = "xsloop"
  /\ XsDrawn(r)
  /\ CryptoDone(CryptoFill([r EXCEPT !.Carry = e, !.Index = QSIZE64], es, 0))

\* What SeedFromCrypto leaves behind when crypto/rand fails.
EntropyPanic == "panic: crypto/rand.Read error in CryptoSource.Uint64"

\* A CryptoSource that hands out words of a lesser source when crypto/rand
\* fails: the generator is seeded as Seed(1) seeds it and the call returns.
EntropyFallback(g) == Res(Seed(g, SelfSeed).g, Zero, FALSE)

\* if _, err := crand.Read(r.buf); err != nil { panic(...) }: the outcome
\* of a SeedFromCrypto that had brought the generator to g.
EntropyFailed(g) == Res(g, Zero, TRUE)

\* SeedFromCrypto has ended with the outcome f of a failure of crypto/rand.
CryptoFailed(pre, f) ==
  /\ r' = f.g
  /\ panicked' = f.panic
  /\ pc' = "idle"
  /\ cr' = 0
  /\ last' = Call("SeedFromCrypto", NIL, pre, EntropyPanic)
  /\ UNCHANGED <<disk, th>>

\* r.SeedFromCrypto() whose first read of the entropy source fails: the new
\* CryptoSource has nothing buffered, so that read calls crypto/rand.
CryptoBeginFails ==
  /\ Ready
  /\ hist' = Origin("SeedFromCrypto", FALSE, 0)
  /\ ops' = ops + 1
  /\ CryptoFailed(r, EntropyFailed(MarkSeeded(r)))

\* A turn of the loop whose read finds the buffer empty, and crypto/rand
\* fails.
CryptoRedrawFails ==
  /\ pc = "xsloop"
  /\ ~XsDrawn(r)
  /\ cr = 0
  /\ CryptoFailed(last.pre, EntropyFailed(r))
  /\ UNCHANGED <<hist, ops>>

RECURSIVE CryptoPart(_, _, _, _)
\* The turns i..n-1 of the loop that fills the buffer.
CryptoPart(g, es, i, n) ==
  IF i >= n THEN g
  ELSE CryptoPart([g EXCEPT !.Q[i + 1] = es[i + 1]], es, i + 1, n)

\* The rest of SeedFromCrypto up to its read number j, which finds the
\* buffer of the CryptoSource empty, and crypto/rand fails: read 1 is that
\* of Carry, read i + 2 that of Q[i].
CryptoFinishFails(e, es, j) ==
  /\ pc = "xsloop"
  /\ XsDrawn(r)
  /\ LeftAfter(cr, j - 1) = 0
  /\ j - 2 <= Len(r.Q)
  /\ CryptoFailed(last.pre,
                  EntropyFailed(IF j = 1 THEN r
                                ELSE CryptoPart([r EXCEPT !.Carry = e,
                                                          !.Index = QSIZE64],
                                                es, 0, j - 2)))
  /\ UNCHANGED <<hist, ops>>

DoUint64 == Ready /\ Returned("Uint64", NIL, Uint64(r), 1)

DoInt63 == Ready /\ Returned("Int63", NIL, Int63(r), 1)

DoFloat64 == Ready /\ Returned("Float64", NIL, Float64(r), 1)

DoFloat32 == Ready /\ Returned("Float32", NIL, Float32(r), 1)

\* n, err := r.Read(p) for a p of len bytes; err is always nil.
DoRead(len) ==
  Ready /\ Returned("Read", len, Read(r, Repeat(Stale, len)), (len + 7) \div 8)

\* The state files are saved, damaged and loaded between the calls of a
\* longer run than the draws alone make.
ReadyIO == pc = "idle" /\ ~panicked /\ ops < MaxIO

\* The save op(name) has had the outcome res.
Stored(op, name, res) ==
  /\ files' = [files EXCEPT ![name] = res.file]
  /\ saved' = IF res.err = NoError THEN [saved EXCEPT ![name] = r] ELSE saved
  /\ last' = Call(op, name, r, res.err)
  /\ ops' = ops + 1
  /\ r' = res.g
  /\ UNCHANGED <<pc, panicked, hist, cr, th>>

\* err := r.SaveState(name)
DoSaveState(name, createFails, isNil) ==
  /\ ReadyIO
  /\ Stored("SaveState", name,
            SaveState(r, isNil, files[name], name, createFails))

\* err := SK64SaveState(p, name), for p = r or p = nil
DoSK64SaveState(name, createFails, isNil) ==
  /\ ReadyIO
  /\ Stored("SK64SaveState", name,
            SK64SaveState(r, isNil, files[name], name, createFails))

\* The environment damages an intact file.
Damage(name, how) ==
  /\ ReadyIO
  /\ files[name].exists
  /\ files[name].damage = "none"
  /\ files' = [files EXCEPT ![name].damage = how]
  /\ ops' = ops + 1
  /\ UNCHANGED <<r, pc, panicked, last, hist, saved, cr, th>>

\* The file name handed to a load, and whether in.Close() failed in it.
LoadArg(name, closeFails) == [name |-> name, closeFails |-> closeFails]

\* The call of LoadState described by last' has had the outcome res.
Restored(name, res) ==
  /\ r' = res.g
  /\ hist' = IF res.g = r THEN hist ELSE Origin("LoadState", name, 0)
  /\ ops' = ops + 1
  /\ UNCHANGED <<pc, panicked, disk, cr, th>>

\* err := r.LoadState(name)
DoLoadState(name, closeFails) ==
  /\ ReadyIO
  /\ last' = Call("LoadState", LoadArg(name, closeFails), r,
                  LoadState(r, files[name], name, closeFails).err)
  /\ Restored(name, LoadState(r, files[name], name, closeFails))

\* z, err := SK64LoadState(name)
DoSK64LoadState(name, closeFails) ==
  /\ ReadyIO
  /\ last' = Call("SK64LoadState", LoadArg(name, closeFails), r,
                  SK64LoadState(files[name], name, closeFails))
  /\ ops' = ops + 1
  /\ UNCHANGED <<r, pc, panicked, hist, disk, cr, th>>

Next ==
  \/ \E seed \in Seeds : DoSeed(seed)
  \/ \E s \in Slices : DoSeedFromSlice(s)
  \/ \E e1, e2 \in Entropy : CryptoBegin(e1, e2)
  \/ \E e \in Entropy : CryptoRedraw(e)
  \/ \E e \in Entropy, es \in EntropyFills : CryptoFinish(e, es)
  \/ DoUint64
  \/ DoInt63
  \/ DoFloat64
  \/ DoFloat32
  \/ \E len \in ReadLens : DoRead(len)

Spec == Init /\ [][Next]_vars

\* SeedFromCrypto with an entropy source that may fail, and the draws that
\* follow it.  A call that is in its loop goes on: it makes another turn
\* while Xs is 0, and runs on to its end once Xs is not 0.
NextCrypto ==
  \/ \E e1, e2 \in Entropy : CryptoBegin(e1, e2)
  \/ CryptoBeginFails
  \/ \E e \in Entropy : CryptoRedraw(e)
  \/ CryptoRedrawFails
  \/ \E e \in Entropy, es \in EntropyFills : CryptoFinish(e, es)
  \/ \E e \in Entropy, es \in EntropyFills, j \in 1..(QSIZE64 + 1) :
       CryptoFinishFails(e, es, j)
  \/ DoUint64

CryptoReturns ==
  \/ \E e \in Entropy, es \in EntropyFills : CryptoFinish(e, es)
  \/ \E e \in Entropy, es \in EntropyFills, j \in 1..(QSIZE64 + 1) :
       CryptoFinishFails(e, es, j)

CryptoTurns ==
  \/ \E e \in Entropy : CryptoRedraw(e)
  \/ CryptoRedrawFails

SpecCrypto ==
  Init /\ [][NextCrypto]_vars /\ WF_vars(CryptoTurns) /\ WF_vars(CryptoReturns)

\* The generators the constructors hand out, and the two a caller can make
\* without one.
Built ==
  {ZeroSK64, AllocSK64, NewSuperKISS64(Int64(0)), NewSuperKISS64(Int64(-1)),
   NewSuperKISS64FromSlice(Ramp(1))}

InitIO ==
  /\ r \in Built
  /\ pc = "idle"
  /\ panicked = FALSE
  /\ last = Call("new", NIL, NIL, NIL)
  /\ hist = Origin("new", NIL, 0)
  /\ ops = 0
  /\ files = [name \in FileNames |-> NoFile]
  /\ saved = [name \in FileNames |-> ZeroSK64]
  /\ cr = 0
  /\ th = NoCalls

NextIO ==
  \/ DoUint64
  \/ \E name \in FileNames, createFails, isNil \in BOOLEAN :
       DoSaveState(name, createFails, isNil)
  \/ \E name \in FileNames, createFails, isNil \in BOOLEAN :
       DoSK64SaveState(name, createFails, isNil)
  \/ \E name \in FileNames, how \in Damages : Damage(name, how)
  \/ \E name \in FileNames, closeFails \in BOOLEAN :
       DoLoadState(name, closeFails)
  \/ \E name \in FileNames, closeFails \in BOOLEAN :
       DoSK64LoadState(name, closeFails)

SpecIO == InitIO /\ [][NextIO]_vars

(***************************************************************************)
(* Two goroutines that call r.Uint64() at the same time.  A call is a      *)
(* sequence of reads and writes of the fields of r; the callers either     *)
(* take one sync.Mutex around their call, or none.                         *)
(***************************************************************************)
\* The goroutines.
Callers == {1, 2}

\* A call that has not begun.
NewCall == [pc |-> "start", i |-> 0, d |-> Zero, t |-> 0, ret |-> Zero]

\* The generators the calls begin on: the next draw refills, or reads the
\* first word of the buffer, or reads the last.
RaceStarts ==
  {After(NewSuperKISS64(SelfSeed), 0),
   After(NewSuperKISS64(SelfSeed), 1),
   After(NewSuperKISS64(SelfSeed), 2)}

InitRace ==
  /\ r \in RaceStarts
  /\ pc = "idle"
  /\ panicked = FALSE
  /\ last = Call("new", NIL, NIL, NIL)
  /\ hist = Origin("new", NIL, 0)
  /\ ops = 0
  /\ files = [name \in FileNames |-> NoFile]
  /\ saved = [name \in FileNames |-> ZeroSK64]
  /\ cr = 0
  /\ \E locked \in BOOLEAN :
       th = [locked |-> locked, held |-> 0, pre |-> r, order |-> <<>>,
             c |-> <<NewCall, NewCall>>]

\* Callers that take no notice of the mutex.
LockIgnored(t) == TRUE

\* mu.Lock() returns: there is no mutex, or no goroutine holds it.
LockFree(t) == ~t.locked \/ t.held = 0

\* Goroutine k is at position p of its call, and the program is running.
At(k, p) == ~panicked /\ th.c[k].pc = p

\* What a step of a call leaves alone.
RaceFrame == UNCHANGED <<pc, last, hist, ops, disk, cr>>

\* Goroutine k begins its call, behind mu.Lock() when there is a mutex.
\* The generator is seeded, so if !r.Seeded passes.
Enter(k) ==
  /\ At(k, "start")
  /\ LockFree(th)
  /\ th' = [th EXCEPT !.held = IF th.locked THEN k ELSE 0,
                      !.c[k].pc = "test"]
  /\ UNCHANGED <<r, panicked>>
  /\ RaceFrame

\* if r.Index < QSIZE64
Test(k) ==
  /\ At(k, "test")
  /\ th' = [th EXCEPT !.c[k].pc = IF InBuffer(r) THEN "load" ELSE "refill"]
  /\ UNCHANGED <<r, panicked>>
  /\ RaceFrame

\* result = r.Q[r.Index], which panics when Index has become QSIZE64 since
\* the test.
Load(k) ==
  /\ At(k, "load")
  /\ IF r.Index >= Len(r.Q)
     THEN /\ panicked' = TRUE
          /\ th' = [th EXCEPT !.c[k].pc = "panic"]
     ELSE /\ panicked' = FALSE
          /\ th' = [th EXCEPT !.c[k].pc = "inc",
                              !.c[k].i = r.Index,
                              !.c[k].d = r.Q[r.Index + 1]]
  /\ UNCHANGED r
  /\ RaceFrame

\* r.Index++, the read.
IncRead(k) ==
  /\ At(k, "inc")
  /\ th' = [th EXCEPT !.c[k].pc = "store", !.c[k].t = r.Index]
  /\ UNCHANGED <<r, panicked>>
  /\ RaceFrame

\* r.Index++, the write.
IncWrite(k) ==
  /\ At(k, "store")
  /\ r' = [r EXCEPT !.Index = th.c[k].t + 1]
  /\ th' = [th EXCEPT !.c[k].pc = "mix"]
  /\ UNCHANGED panicked
  /\ RaceFrame

\* The outcome f of result = r.refill().
Refilled(k, f) ==
  /\ r' = f.g
  /\ th' = [th EXCEPT !.c[k].pc = "mix", !.c[k].i = 0, !.c[k].d = f.out]
  /\ UNCHANGED panicked
  /\ RaceFrame

Refill(k) == At(k, "refill") /\ Refilled(k, refill(r))

\* The outcome m of r.Xs = xs(r.Xs); result += r.cng() + r.Xs; return, and
\* mu.Unlock() in the caller.
Mixed(k, m) ==
  /\ r' = m.g
  /\ th' = [th EXCEPT !.c[k].pc = "done",
                      !.c[k].ret = m.out,
                      !.held = 0,
                      !.order = Append(th.order, k)]
  /\ UNCHANGED panicked
  /\ RaceFrame

MixStep(k) == At(k, "mix") /\ Mixed(k, Mix(Res(r, th.c[k].d, FALSE)))

NextRace ==
  \/ \E k \in Callers : Enter(k)
  \/ \E k \in Callers : Test(k)
  \/ \E k \in Callers : Load(k)
  \/ \E k \in Callers : IncRead(k)
  \/ \E k \in Callers : IncWrite(k)
  \/ \E k \in Callers : Refill(k)
  \/ \E k \in Callers : MixStep(k)

SpecRace == InitRace /\ [][NextRace]_vars

(***************************************************************************)
(* SeedFromSlice on a new generator by its two parts, the fill of the      *)
(* buffer and the warm-up, for every slice of up to QSIZE64 + 1 words out  *)
(* of a few, and the draws that follow.                                    *)
(***************************************************************************)
\* The words a slice is made of.
SliceWords == {Zero, FromNat(1), Not(Zero)}

\* The slices handed to SeedFromSlice.
SliceInputs == UNION {[1..n -> SliceWords] : n \in 0..(QSIZE64 + 1)}

\* r.SeedFromSlice(s) up to its warm-up, with the outcome f.
SliceFilled(s, f) ==
  /\ r' = f.g
  /\ panicked' = f.panic
  /\ pc' = IF f.panic THEN "idle" ELSE "warmup"
  /\ last' = Call("SeedFromSlice", s, r, NIL)
  /\ hist' = Origin("SeedFromSlice", s, 0)
  /\ ops' = ops + 1
  /\ UNCHANGED <<disk, cr, th>>

\* SeedFromSlice as the first call on a new generator, as
\* NewSuperKISS64FromSlice makes it.
DoSliceFill(s) ==
  /\ Ready
  /\ last.op = "new"
  /\ SliceFilled(s, SliceFill(SeedScalars(MarkSeeded(r), XcngSeed0), s))

\* The warm-up of SeedFromSlice, with the outcome f, and the return.
SliceWarmed(f) ==
  /\ r' = f.g
  /\ panicked' = f.panic
  /\ pc' = "idle"
  /\ UNCHANGED <<last, hist, ops, disk, cr, th>>

DoSliceWarmup ==
  pc = "warmup" /\ SliceWarmed(SliceWarmup(Res(r, Zero, FALSE)))

NextSlice ==
  \/ \E s \in SliceInputs : DoSliceFill(s)
  \/ DoSliceWarmup
  \/ DoUint64

SpecSlice == Init /\ [][NextSlice]_vars


(***************************************************************************)
(* The properties.                                                         *)
(***************************************************************************)
\* The file a load has just read is as SaveState wrote it.
Intact(name) == files[name].exists /\ files[name].damage = "none"

\* C1: a generator loaded (by LoadState, also into a generator advanced
\* since the save, or by SK64LoadState) from a file as SaveState wrote it,
\* plain or gzip'ped, produces as its next MaxN draws the MaxN draws the
\* saved generator produced after the save; and such a load succeeds
\* unless closing the file fails.
C1_RoundTrip ==
  /\ (last.op = "LoadState" /\ Intact(last.arg.name))
       => /\ ~last.arg.closeFails => last.out = NoError
          /\ last.out = NoError
               => Outs(r, MaxN) = Outs(saved[last.arg.name], MaxN)
  /\ (last.op = "SK64LoadState" /\ Intact(last.arg.name))
       => /\ ~last.arg.closeFails => last.out.err = NoError
          /\ last.out.err = NoError
               => /\ ~last.out.isNil
                  /\ Outs(last.out.g, MaxN)
                       = Outs(saved[last.arg.name], MaxN)

\* C1 happens: a gzip'ped state saved mid-buffer by a seeded generator has
\* been loaded back into that generator after it had been advanced.
C1_Witness ==
  /\ last.op = "LoadState"
  /\ last.out = NoError
  /\ Intact(last.arg.name)
  /\ HasSuffixGz(last.arg.name)
  /\ saved[last.arg.name].Seeded
  /\ saved[last.arg.name].Index < QSIZE64
  /\ last.pre # saved[last.arg.name]
  /\ Len(Outs(r, MaxN)) = MaxN

\* C2: whenever LoadState returns a non-nil error, r is as it was before
\* the call.
C2_FailedLoadKeepsR ==
  (last.op = "LoadState" /\ last.out # NoError) => r = last.pre

\* C3: no call of Uint64 ends in an out-of-range access to Q.
C3_Uint64NeverFails == last.op = "Uint64" => ~panicked

\* C4: after Seed(seed) or SeedFromSlice(s), whatever the generator was
\* before, its whole state after any number of draws, and the value of each
\* draw, are those of a new generator seeded with the same argument.
C4_Reproducible ==
  /\ (hist.how = "Seed" /\ ~panicked)
       => /\ r = After(NewSuperKISS64(hist.arg), hist.draws)
          /\ last.op = "Uint64"
               => last.out
                    = Outs(NewSuperKISS64(hist.arg), hist.draws)[hist.draws]
  /\ (hist.how = "SeedFromSlice" /\ ~panicked)
       => /\ r = After(NewSuperKISS64FromSlice(hist.arg), hist.draws)
          /\ last.op = "Uint64"
               => last.out
                    = Outs(NewSuperKISS64FromSlice(hist.arg),
                           hist.draws)[hist.draws]

\* C4 happens: Seed has reseeded a generator that was seeded before and
\* had been drawn from.
C4_Witness ==
  /\ ~panicked
  /\ last.op = "Seed"
  /\ last.pre.Seeded
  /\ last.pre.Index < QSIZE64

\* C5: a generator with a buffer and Seeded false that is drawn from is,
\* after any number of draws, in the state of NewSuperKISS64(1) after as
\* many draws, and each draw returns the value that generator returns.
C5_SelfSeed ==
  (hist.how = "self" /\ ~panicked)
    => /\ r = After(NewSuperKISS64(Int64(1)), hist.draws)
       /\ last.op = "Uint64"
            => last.out
                 = Outs(NewSuperKISS64(Int64(1)), hist.draws)[hist.draws]

\* C5 happens: the second draw of a generator that seeded itself.
C5_Witness ==
  /\ ~panicked
  /\ hist.how = "self"
  /\ hist.draws >= 2
  /\ last.op = "Uint64"

\* C6: Read(p) returns (len(p), nil); byte k of p is byte k mod 8, least
\* significant first, of draw k div 8 of the call; and the call makes
\* ceil(len(p)/8) draws.
C6_Read ==
  (last.op = "Read" /\ ~panicked)
    => /\ last.out.n = last.arg
       /\ last.out.err = NoError
       /\ Len(last.out.p) = last.arg
       /\ \A k \in 0..(last.arg - 1) :
            last.out.p[k + 1]
              = Outs(last.pre, (last.arg + 7) \div 8)[(k \div 8) + 1][(k % 8) + 1]
       /\ r = After(last.pre, (last.arg + 7) \div 8)

\* C6 happens: a Read of two whole groups and a partial one.
C6_Witness ==
  /\ ~panicked
  /\ last.op = "Read"
  /\ last.arg = 17
  /\ last.out.p[17] # Stale

\* C7: after SeedFromSlice(s) with len(s) > QSIZE64 the generator is in the
\* state that the first QSIZE64 elements of s followed by another element
\* put it in.
C7_FirstWordsOnly ==
  (hist.how = "SeedFromSlice" /\ hist.draws = 0 /\ ~panicked
     /\ Len(hist.arg) > QSIZE64)
    => r = NewSuperKISS64FromSlice(SubSeq(hist.arg, 1, QSIZE64) \o <<Zero>>)

\* C8: once SeedFromCrypto has returned, Xs is not 0, and it is not 0 after
\* any draw that follows.
C8_XsNonzero == (hist.how = "SeedFromCrypto" /\ pc = "idle") => r.Xs # Zero

\* C8 happens: the entropy source handed out 0 for Xs, SeedFromCrypto
\* returned, and the generator has been drawn from.
C8_Witness ==
  /\ ~panicked
  /\ pc = "idle"
  /\ hist.how = "SeedFromCrypto"
  /\ hist.arg
  /\ hist.draws > 0

\* C9: the bit pattern Float64 builds has sign 0 and exponent 0x3FF, the
\* one Float32 builds sign 0 and exponent 0x7F, for every draw made and for
\* the draws of all zeros and all ones.
C9_FloatBits ==
  /\ (last.op = "Float64" /\ ~panicked)
       => Sign64(last.out) = 0 /\ Exp64(last.out) = 1023
  /\ (last.op = "Float32" /\ ~panicked)
       => Sign32(last.out) = 0 /\ Exp32(last.out) = 127
  /\ \A u \in Entropy :
       /\ Sign64(Float64Bits(u)) = 0 /\ Exp64(Float64Bits(u)) = 1023
       /\ Sign32(Float32Bits(u)) = 0 /\ Exp32(Float32Bits(u)) = 127

\* C9 happens: Float64 has converted a draw whose two top bits are set.
C9_Witness ==
  /\ ~panicked
  /\ last.op = "Float64"
  /\ Bit(Outs(last.pre, 1)[1], 63) = 1
  /\ Bit(Outs(last.pre, 1)[1], 62) = 1

\* C10: Int63 returns its one draw shifted right by one, which as an int64
\* is not negative, and leaves the generator as one draw leaves it.
C10_Int63 ==
  (last.op = "Int63" /\ ~panicked)
    => /\ Bit(last.out, 63) = 0
       /\ last.out = Shr(Outs(last.pre, 1)[1], 1)
       /\ r = After(last.pre, 1)

\* C10 happens: Int63 has converted a draw whose top bit is set.
C10_Witness ==
  /\ ~panicked
  /\ last.op = "Int63"
  /\ Bit(Outs(last.pre, 1)[1], 63) = 1

\* The fill of Seed written out: word i of the buffer is the sum of the
\* (i+1)-th iterate of cng on the start of Xcng and of xs on the start of Xs.
RECURSIVE CngN(_, _)
CngN(x, n) == IF n = 0 THEN x ELSE cng(CngN(x, n - 1))

RECURSIVE XsN(_, _)
XsN(x, n) == IF n = 0 THEN x ELSE xs(XsN(x, n - 1))

RECURSIVE FillWords(_, _)
FillWords(x, n) ==
  IF n = 0 THEN <<>>
  ELSE FillWords(x, n - 1) \o <<Add(CngN(x, n), XsN(XsSeed, n))>>

SeedFill(x) ==
  [Carry |-> CarrySeed, Xcng |-> CngN(x, QSIZE64), Xs |-> XsN(XsSeed, QSIZE64),
   Index |-> QSIZE64, Q |-> FillWords(x, QSIZE64), Seeded |-> TRUE]

\* C11: Seed(0) leaves the buffer filled from Xcng = 12367890123456,
\* Xs = 521288629546311 and Carry = 36243678541 with no draw made; Seed(s)
\* for s # 0 fills it the same way from Xcng = uint64(s) and then makes
\* exactly 4*QSIZE64 draws.
C11_SeedWarmup ==
  (last.op = "Seed" /\ ~panicked)
    => /\ last.arg = Zero => r = SeedFill(XcngSeed0)
       /\ last.arg # Zero => r = After(SeedFill(last.arg), 4 * QSIZE64)

\* C11 happens: Seed(-1), whose seed as a uint64 is 2^64 - 1, has seeded a
\* generator.
C11_Witness ==
  /\ ~panicked
  /\ last.op = "Seed"
  /\ last.arg = Not(Zero)
  /\ r.Index = QSIZE64

\* C12: SeedFromSlice of an empty slice leaves the generator in the state
\* that Seed(0) followed by exactly 4*QSIZE64 draws leaves it in.
C12_EmptySlice ==
  (last.op = "SeedFromSlice" /\ Len(last.arg) = 0 /\ ~panicked)
    => r = After(Seed(last.pre, Zero).g, 4 * QSIZE64)

\* C12 happens: SeedFromSlice of an empty slice has reseeded a generator.
C12_Witness ==
  /\ ~panicked
  /\ last.op = "SeedFromSlice"
  /\ Len(last.arg) = 0
  /\ last.pre.Seeded

\* C15 as stated: a call of Seed on a seeded generator leaves the generator
\* as it was.
C15_SeedIsNoOp ==
  (last.op = "Seed" /\ last.pre.Seeded /\ ~panicked) => r = last.pre

\* C15 amended: a call of Seed(seed) on a seeded generator is not ignored:
\* it puts the generator in the state of NewSuperKISS64(seed), cursor at
\* QSIZE64, which is not the state of a generator drawn from.
C15_SeedReseeds ==
  (last.op = "Seed" /\ last.pre.Seeded /\ ~panicked)
    => /\ r = NewSuperKISS64(last.arg)
       /\ r.Index = QSIZE64
       /\ last.pre.Index < QSIZE64 => r # last.pre

\* C15 happens: Seed has been called on a seeded generator in mid-buffer
\* and has changed it.
C15_Witness ==
  /\ ~panicked
  /\ last.op = "Seed"
  /\ last.pre.Seeded
  /\ last.pre.Index < QSIZE64
  /\ r.Xcng # last.pre.Xcng

\* The refill pass written out: z of a word q and the Carry c before it,
\* the Carry after it, and the Carry before iteration i of a pass over g.
PassZ(q, c) == Add(Add(Shr(Shl(q, 41), 1), Shr(Shl(q, 39), 1)), Shr(c, 1))

PassNext(q, z) == Add(Add(Shr(q, 23), Shr(q, 25)), Shr(z, 63))

RECURSIVE PassCarry(_, _)
PassCarry(g, i) ==
  IF i = 0 THEN g.Carry
  ELSE PassNext(g.Q[i], PassZ(g.Q[i], PassCarry(g, i - 1)))

PassWord(q, c) == Not(Add(Shl(PassZ(q, c), 1), FromNat(c[1] % 2)))

\* C17: a refill replaces each Q[i], in increasing order of i, by
\* NOT((z << 1) + h) with h and z from the Carry that iteration i-1 left,
\* leaves Index = 1, returns the new Q[0] and leaves Xcng, Xs and Seeded as
\* they were.
C17_RefillPass ==
  (last.op = "Uint64" /\ ~panicked /\ last.pre.Seeded
     /\ last.pre.Index = QSIZE64)
    => /\ \A i \in 0..(QSIZE64 - 1) :
            r.Q[i + 1] = PassWord(last.pre.Q[i + 1], PassCarry(last.pre, i))
       /\ r.Carry = PassCarry(last.pre, QSIZE64)
       /\ r.Index = 1
       /\ refill(last.pre).g.Q = r.Q
       /\ refill(last.pre).out = r.Q[1]
       /\ refill(last.pre).g.Xcng = last.pre.Xcng
       /\ refill(last.pre).g.Xs = last.pre.Xs
       /\ refill(last.pre).g.Seeded = last.pre.Seeded

\* C17 happens: a draw has refilled the buffer of a generator whose Carry
\* was odd, so that h = 1 in the first iteration.
C17_Witness ==
  /\ ~panicked
  /\ last.op = "Uint64"
  /\ last.pre.Seeded
  /\ last.pre.Index = QSIZE64
  /\ last.pre.Carry[1] % 2 = 1

\* C18: on a seeded generator Uint64 returns d + c + x mod 2^64, with c the
\* new Xcng = 6906969069*Xcng + 123, x the new Xs = xs(Xs), and d the old
\* Q[Index] (Index becoming Index + 1) if Index < QSIZE64, the new Q[0]
\* (Index becoming 1) otherwise.
C18_DrawMix ==
  (last.op = "Uint64" /\ ~panicked /\ last.pre.Seeded)
    => /\ r.Xcng = Add(Mul(ParseUint(<<6, 9, 0, 6, 9, 6, 9, 0, 6, 9>>),
                           last.pre.Xcng), FromNat(123))
       /\ r.Xs = xs(last.pre.Xs)
       /\ last.pre.Index < QSIZE64
            => /\ last.out
                    = Add(Add(last.pre.Q[last.pre.Index + 1], r.Xcng), r.Xs)
               /\ r.Index = last.pre.Index + 1
       /\ last.pre.Index >= QSIZE64
            => /\ last.out = Add(Add(r.Q[1], r.Xcng), r.Xs)
               /\ r.Index = 1

\* C18 happens: a seeded generator has been drawn from in mid-buffer.
C18_Witness ==
  /\ ~panicked
  /\ last.op = "Uint64"
  /\ last.pre.Seeded
  /\ last.pre.Index < QSIZE64
  /\ last.pre.Index > 0

\* The Index of the generator that LoadState makes of the file that
\* SaveState writes for g under a name.
IndexSaved(g, name) ==
  LoadState(AllocSK64, SaveState(g, FALSE, NoFile, name, FALSE).file, name,
            FALSE).g.Index

\* C20: Index is in 0..QSIZE64, also in the generator loaded from a file
\* saved of this one; it is in 1..QSIZE64 once a draw has been made; and a
\* draw of a seeded generator changes Q or Carry, that is, refills, exactly
\* when it starts with Index = QSIZE64.
C20_CursorRange ==
  /\ r.Index \in 0..QSIZE64
  /\ \A name \in FileNames : IndexSaved(r, name) = r.Index
  /\ (hist.draws > 0 /\ ~panicked) => r.Index \in 1..QSIZE64
  /\ (last.op = "Uint64" /\ ~panicked /\ last.pre.Seeded)
       => (last.pre.Index = QSIZE64
             <=> (r.Q # last.pre.Q \/ r.Carry # last.pre.Carry))

\* C20 happens: a generator that had used up a whole buffer since its
\* seeding has been drawn from, and has refilled.
C20_Witness ==
  /\ ~panicked
  /\ last.op = "Uint64"
  /\ last.pre.Seeded
  /\ last.pre.Index = QSIZE64
  /\ hist.draws > QSIZE64
  /\ r.Index = 1


\* The words the entropy source hands out.
EntropyWords ==
  Entropy \cup {es[i] : es \in EntropyFills, i \in 1..QSIZE64}

\* Every word of g is one the entropy source handed out, or the word pre has
\* in its place.
EntropyOrKept(g, pre) ==
  /\ g.Xcng \in EntropyWords \cup {pre.Xcng}
  /\ g.Xs \in EntropyWords \cup {pre.Xs}
  /\ g.Carry \in EntropyWords \cup {pre.Carry}
  /\ Len(g.Q) = Len(pre.Q)
  /\ \A i \in 1..Len(g.Q) : g.Q[i] \in EntropyWords \cup {pre.Q[i]}

\* C13: a failure of the entropy source during SeedFromCrypto ends the call
\* in a panic and no call follows it; no word of the generator comes from
\* anywhere but the entropy source or the state before the call, and a
\* seeding that returns has every word from the entropy source.
C13_EntropyFailureIsLoud ==
  /\ (last.op = "SeedFromCrypto" /\ last.out = EntropyPanic)
       => /\ panicked
          /\ pc = "idle"
          /\ ~ENABLED NextCrypto
          /\ EntropyOrKept(r, last.pre)
  /\ (last.op = "SeedFromCrypto" /\ pc = "idle" /\ ~panicked)
       => /\ last.out # EntropyPanic
          /\ r.Seeded
          /\ r.Index = QSIZE64
          /\ {r.Xcng, r.Xs, r.Carry} \subseteq EntropyWords
          /\ \A i \in 1..Len(r.Q) : r.Q[i] \in EntropyWords

\* C13: crypto/rand fails in the middle of the filling of the buffer.
C13_Witness ==
  /\ last.op = "SeedFromCrypto"
  /\ last.out = EntropyPanic
  /\ panicked
  /\ Len(r.Q) = QSIZE64
  /\ r.Q[1] # last.pre.Q[1]
  /\ r.Q[QSIZE64] = last.pre.Q[QSIZE64]

\* C14 as stated: every SeedFromCrypto that has begun comes to its end,
\* whatever the entropy source hands out.
C14_AlwaysCompletes == (pc = "xsloop") ~> (pc = "idle")

\* C14: a draw refills the buffer at most once, and a SeedFromCrypto whose
\* Xs is not 0 comes to its end; while the entropy source hands out 0 the
\* loop makes one more turn for each.
C14_CompletesOnceNonzero ==
  /\ [](last.op = "Uint64" /\ last.pre.Seeded /\ ~panicked
          => \/ r.Q = last.pre.Q
             \/ r.Q = refill(last.pre).g.Q)
  /\ [](pc = "xsloop" /\ r.Xs = Zero
          => ENABLED (\E e \in Entropy : CryptoRedraw(e)) /\ ~ENABLED CryptoReturns)
  /\ ((pc = "xsloop" /\ r.Xs # Zero) ~> (pc = "idle"))

\* C14: a SeedFromCrypto has returned after the entropy source handed out 0
\* for Xs at least once.
C14_Witness ==
  /\ last.op = "SeedFromCrypto"
  /\ hist.how = "SeedFromCrypto"
  /\ hist.arg = TRUE
  /\ pc = "idle"
  /\ ~panicked
  /\ last.out # EntropyPanic


\* Q and Carry of g are those of pre.
BufferKept(g, pre) == g.Q = pre.Q /\ g.Carry = pre.Carry

\* The draws of C19: a draw leaves Q and Carry alone unless it refills, and
\* every draw takes Xcng and Xs one step on and leaves Seeded true.
DrawFrame ==
  (last.op = "Uint64" /\ last.pre.Seeded /\ ~panicked)
    => /\ last.pre.Index < QSIZE64 => BufferKept(r, last.pre)
       /\ last.pre.Index = QSIZE64
            => r.Q = refill(last.pre).g.Q /\ r.Carry = refill(last.pre).g.Carry
       /\ r.Xcng = cng(last.pre.Xcng)
       /\ r.Xs = xs(last.pre.Xs)
       /\ r.Seeded

\* C19: a draw with Index < QSIZE64 leaves Q and Carry unchanged; every draw
\* advances Xcng by one congruential step and Xs by one xorshift step and
\* leaves Seeded true; Q and Carry change only in a refill, a seeding call
\* or a load that succeeds, so a load that returns an error and a save leave
\* them as they were.
C19_DrawFrame ==
  /\ DrawFrame
  /\ last.op = "SaveState" => BufferKept(r, last.pre)
  /\ last.op = "SK64LoadState" => BufferKept(r, last.pre)
  /\ (last.op = "LoadState" /\ last.out # NoError) => BufferKept(r, last.pre)


\* Both calls have returned.
BothDone == \A k \in Callers : th.c[k].pc = "done"

\* The values the calls returned, in the order in which they returned.
Returns == <<th.c[th.order[1]].ret, th.c[th.order[2]].ret>>

\* C16: with every call behind one mutex, at most one call is under way, no
\* call panics, the two calls read different positions of the buffer, and
\* the values returned and the generator left behind are those of two
\* draws of one goroutine.  Without a mutex, whenever one call has read
\* Q[Index] and not yet written Index, the other call can read the same
\* position, and can read the same Index to increment.
C16_Concurrent ==
  /\ th.locked
       => /\ ~panicked
          /\ \E k \in Callers : th.c[k].pc \in {"start", "done"}
          /\ BothDone
               => /\ Returns = Outs(th.pre, 2)
                  /\ r = After(th.pre, 2)
                  /\ th.c[1].i # th.c[2].i
  /\ (th # NoCalls /\ ~th.locked)
       => \A a, b \in Callers :
            /\ (At(a, "inc") /\ At(b, "load"))
                 => ENABLED (Load(b) /\ th'.c[b].i = th.c[a].i)
            /\ (At(a, "store") /\ At(b, "inc"))
                 => ENABLED (IncRead(b) /\ th'.c[b].t = th.c[a].t)

\* C16: without a mutex both calls have returned a value made from the same
\* word of the buffer, and Index has gone up by one for the two of them.
C16_Witness ==
  /\ th # NoCalls
  /\ ~th.locked
  /\ BothDone
  /\ th.c[1].i = th.c[2].i
  /\ th.c[1].d = th.c[2].d
  /\ r.Index = th.pre.Index + 1
  /\ Returns # Outs(th.pre, 2)


RECURSIVE LeqFrom(_, _, _)
\* a <= b, for the bytes i and below of two words that agree above i.
LeqFrom(a, b, i) ==
  IF i = 0 THEN TRUE
  ELSE IF a[i] # b[i] THEN a[i] < b[i]
  ELSE LeqFrom(a, b, i - 1)

\* a <= b as unsigned 64-bit numbers.
Leq(a, b) == LeqFrom(a, b, 8)

\* (2^41 - 1) + (2^39 - 1) + 1
CarryMax == Add(Add(Shr(Not(Zero), 23), Shr(Not(Zero), 25)), FromNat(1))

\* x + y + c is less than 2^64.
SumFits(x, y, c) == Leq(x, Add(x, y)) /\ Leq(Add(x, y), Add(Add(x, y), c))

\* The z of the iteration of refill that finds q and the Carry c does not
\* wrap around.
ZFits(q, c) == SumFits(Shr(Shl(q, 41), 1), Shr(Shl(q, 39), 1), Shr(c, 1))

\* No z of a refill of g wraps around.
NoWrap(g) == \A i \in 0..(QSIZE64 - 1) : ZFits(g.Q[i + 1], PassCarry(g, i))

\* A call has returned and left a seeded generator.
SeededIdle == r.Seeded /\ pc = "idle" /\ ~panicked /\ Len(r.Q) = QSIZE64

\* C21 as stated: after Seed, SeedFromSlice or SeedFromCrypto and any number
\* of draws, Carry is at most (2^41 - 1) + (2^39 - 1) + 1, and no z of the
\* refill that comes next wraps around.
C21_CarrySmall ==
  (SeededIdle /\ hist.how \in {"Seed", "self", "SeedFromSlice", "SeedFromCrypto"})
    => /\ Leq(r.Carry, CarryMax)
       /\ r.Index = QSIZE64 => NoWrap(r)

\* C21: after Seed or SeedFromSlice and any number of draws, and after
\* SeedFromCrypto and at least one draw, Carry is at most
\* (2^41 - 1) + (2^39 - 1) + 1 and no z of the refill that comes next wraps
\* around; SeedFromCrypto itself leaves in Carry the word the entropy source
\* handed out, whatever it is.
C21_CarrySmallOnceRefilled ==
  /\ (SeededIdle
        /\ \/ hist.how \in {"Seed", "self", "SeedFromSlice"}
           \/ hist.how = "SeedFromCrypto" /\ hist.draws > 0)
       => /\ Leq(r.Carry, CarryMax)
          /\ r.Index = QSIZE64 => NoWrap(r)
  /\ (SeededIdle /\ hist.how = "SeedFromCrypto" /\ hist.draws = 0)
       => r.Carry \in Entropy

\* C21: the first refill after a SeedFromCrypto that left 2^64 - 1 in Carry
\* has wrapped around and left a small Carry.
C21_Witness ==
  /\ SeededIdle
  /\ hist.how = "SeedFromCrypto"
  /\ hist.draws = 1
  /\ last.op = "Uint64"
  /\ last.pre.Carry = Not(Zero)
  /\ ~NoWrap(last.pre)
  /\ Leq(r.Carry, CarryMax)
  /\ r.Carry # Zero


\* The start of Xcng and of Xs as C22 has them.
StartXcng == ParseUint(<<1, 2, 3, 6, 7, 8, 9, 0, 1, 2, 3, 4, 5, 6>>)

StartXs == ParseUint(<<5, 2, 1, 2, 8, 8, 6, 2, 9, 5, 4, 6, 3, 1, 1>>)

\* Q[0] as SeedFromSlice(s) sets it first.
FirstWord(s) == Add(Add(s[1], cng(StartXcng)), xs(StartXs))

\* Q[i - 1] as the step i of the fill finds it, in the buffer q it leaves.
WordBefore(q, s, i) == IF i = 1 THEN FirstWord(s) ELSE q[i]

\* s[i mod N] + cng() + xs(Q[i-1]) + i, cng() being called for the
\* (i+1)-th time.
FillWord(q, s, i) ==
  Add(Add(Add(s[(i % Len(s)) + 1], CngN(StartXcng, i + 1)),
          xs(WordBefore(q, s, i))),
      FromNat(i))

RECURSIVE RefillsIn(_, _)
\* The number of refills that n draws of the seeded generator g make.
RefillsIn(g, n) ==
  IF n = 0 THEN 0
  ELSE (IF g.Index = QSIZE64 THEN 1 ELSE 0) + RefillsIn(Uint64(g).g, n - 1)

\* The generator as SeedFromSlice(s) has it before its warm-up.
SliceFillOf(pre, s) == SliceFill(SeedScalars(MarkSeeded(pre), XcngSeed0), s).g

\* C23: Seed, SeedFromSlice and SeedFromCrypto return with Index = QSIZE64;
\* the warm-up of Seed(s # 0) and of SeedFromSlice makes exactly 4 refills;
\* and the first Uint64 after a seeding refills the buffer and returns a
\* value made from the new Q[0].
C23_SeededAtEnd ==
  /\ (last.op \in {"Seed", "SeedFromSlice"} /\ ~panicked)
       => r.Index = QSIZE64 /\ r.Seeded
  /\ (last.op = "SeedFromCrypto" /\ pc = "idle" /\ ~panicked)
       => r.Index = QSIZE64 /\ r.Seeded
  /\ (last.op = "Seed" /\ last.arg # Zero /\ ~panicked)
       => RefillsIn(SeedFill(last.arg), 4 * QSIZE64) = 4
  /\ (last.op = "SeedFromSlice" /\ ~panicked)
       => RefillsIn(SliceFillOf(last.pre, last.arg), 4 * QSIZE64) = 4
  /\ (last.op = "Uint64" /\ hist.draws = 1 /\ ~panicked
        /\ hist.how \in {"Seed", "SeedFromSlice", "SeedFromCrypto"})
       => /\ last.pre.Index = QSIZE64
          /\ r.Index = 1
          /\ r.Q[1] = PassWord(last.pre.Q[1], last.pre.Carry)
          /\ last.out = Add(r.Q[1], Add(r.Xcng, r.Xs))

\* C23: the first Uint64 after a SeedFromSlice of a slice that is not empty
\* has returned.
C23_Witness ==
  /\ last.op = "Uint64"
  /\ hist.how = "SeedFromSlice"
  /\ Len(hist.arg) > 0
  /\ hist.draws = 1
  /\ ~panicked
  /\ r.Index = 1


\* How a generator that draws has been seeded.
SeededHow == {"Seed", "self", "SeedFromSlice", "SeedFromCrypto"}

\* The calls that draw one value.
OneDraw == {"Uint64", "Int63", "Float64", "Float32"}

\* The number of draws the last call made.
LastDraws ==
  IF last.op \in OneDraw THEN 1
  ELSE IF last.op = "Read" THEN (last.arg + 7) \div 8
  ELSE 0

\* The position of the buffer the d-th draw after a seeding uses.
PositionOf(d) == (d - 1) % QSIZE64

\* The value of a draw that used the word at position k of the buffer of g.
ValueAt(g, k) == Add(g.Q[k + 1], Add(g.Xcng, g.Xs))

\* C24: the d-th draw after a seeding uses position (d - 1) mod QSIZE64 of
\* the buffer and leaves the cursor behind it, so that a refill comes with
\* every QSIZE64-th draw and each position is used once between two
\* refills, whichever of Uint64, Int63, Float64, Float32 and Read make the
\* draws; the buffer changes only when a draw refills it; and
\* the value of a draw is made from the word at its position, the new Q[0]
\* when it refills.
C24_EachWordOnce ==
  /\ (hist.how \in SeededHow /\ hist.draws > 0 /\ pc = "idle" /\ ~panicked)
       => r.Index = PositionOf(hist.draws) + 1
  /\ (LastDraws > 0 /\ last.pre.Seeded /\ ~panicked)
       => /\ r = After(last.pre, LastDraws)
          /\ r.Index = PositionOf(last.pre.Index + LastDraws) + 1
          /\ last.pre.Index + LastDraws <= QSIZE64 => r.Q = last.pre.Q
  /\ (last.op \in OneDraw /\ last.pre.Seeded /\ ~panicked)
       => /\ last.pre.Index < QSIZE64
               => r.Q[r.Index] = last.pre.Q[last.pre.Index + 1]
          /\ last.pre.Index = QSIZE64
               => r.Q[1] = PassWord(last.pre.Q[1], last.pre.Carry)
          /\ last.op = "Uint64" => last.out = ValueAt(r, r.Index - 1)
          /\ last.op = "Int63" => last.out = Shr(ValueAt(r, r.Index - 1), 1)
          /\ last.op = "Float64"
               => last.out = Or(Shr(ValueAt(r, r.Index - 1), 2), OneBits64)

\* C24: a Read of 17 bytes has made three draws, the second of which
\* refilled the buffer, after draws of other calls.
C24_Witness ==
  /\ last.op = "Read"
  /\ last.arg = 17
  /\ ~panicked
  /\ last.pre.Seeded
  /\ last.pre.Index = QSIZE64 - 1
  /\ r.Index = 2
  /\ r.Q # last.pre.Q
  /\ hist.draws > 3


\* The calls that save.
Saves == {"SaveState", "SK64SaveState"}

\* The error of a save that was handed nil.
NilErrors ==
  {<<"SuperKISS64:SaveState called with nil r">>,
   <<"SuperKISS64:SK64SaveState called with nil r">>}

\* C25: SaveState and SK64SaveState, whether they return nil or an error,
\* leave every field of the generator as it was, so the draws that follow
\* are those that would have followed without the save; handed nil they
\* return an error, write no file, and do not panic.
C25_SaveReadOnly ==
  /\ last.op \in Saves
       => /\ r = last.pre
          /\ ~panicked
          /\ Outs(r, MaxN) = Outs(last.pre, MaxN)
  /\ \A name \in FileNames, createFails \in BOOLEAN :
       /\ SaveState(r, TRUE, files[name], name, createFails).err \in NilErrors
       /\ SaveState(r, TRUE, files[name], name, createFails).file = files[name]
       /\ SK64SaveState(r, TRUE, files[name], name, createFails).err \in NilErrors
       /\ SK64SaveState(r, TRUE, files[name], name, createFails).file = files[name]

\* C25: SK64SaveState, handed nil, has returned its error after the caller
\* drew from a seeded generator, and there is no file of the name.
C25_Witness ==
  /\ last.op = "SK64SaveState"
  /\ last.out \in NilErrors
  /\ r.Seeded
  /\ r.Index < QSIZE64
  /\ ~files[last.arg].exists

=============================================================================
